---- MODULE Spec2Model ----
(***************************************************************************)
(* A model of the session-keyed signing service of eyePGP (src/server2.py):*)
(* the process-wide session store active_keys, the request handlers        *)
(* process_iris, download_keys, sign_data and verify_signature, and the    *)
(* armor encoder create_pgp_armor.                                         *)
(*                                                                         *)
(* Data is modelled at byte level.  Bytes are the integers 0..255, byte    *)
(* strings are sequences of bytes, text is a sequence of one-character     *)
(* strings, and a message (a Python str) is a sequence of code points.     *)
(* hex(), bytes.fromhex(), base64.b64encode() and str.encode('utf-8') are  *)
(* computed as the library computes them.  SHA-256 and Ed25519 cannot be   *)
(* computed here: sha256 is a deterministic 32-byte mixing digest, and     *)
(* Ed25519 is idealised (a signature verifies under a public key exactly   *)
(* when it is the 64 bytes the matching private key signs for that         *)
(* message).                                                               *)
(***************************************************************************)
EXTENDS Integers, Sequences, FiniteSets, TLC

VARIABLES
    IRIS_AVAILABLE,   \* module flag set at import (server2.py:19-25)
    active_keys,      \* the session store (server2.py:159)
    now,              \* the wall clock read by time.time() / datetime.now()
    req,              \* the request being answered (NoRequest between requests)
    resp,             \* the response returned for req
    issued,           \* session ids returned by successful creations of this process
    signed,           \* <<session id, message, signature hex>> returned by Sign in this process
    derived,          \* every successful derivation so far, over all runs of the process
    armor_in,         \* arguments of the last direct create_pgp_armor call
    armor_out,        \* the text that call returned
    threads           \* the requests the threaded server is handling at once

vars == <<IRIS_AVAILABLE, active_keys, now, req, resp, issued, signed, derived,
          armor_in, armor_out, threads>>

-----------------------------------------------------------------------------
(* Bounds of the model *)

\* the clock takes the values 0..MaxTime
MaxTime == 1
\* at most MaxSessions entries are ever held in the store
MaxSessions == 2
\* at most MaxSigned signatures returned by /sign are remembered
MaxSigned == 1
\* create_pgp_armor is applied to data of 1..MaxData bytes
MaxData == 100
\* the threaded server handles at most MaxThreads requests at once
MaxThreads == 2

-----------------------------------------------------------------------------
(* Bytes, hex and text *)

Byte == 0..255

\* a sequence given as a function on 1..n, held as a tuple (the same value;
\* it saves evaluating the function anew at every use)
AsSeq(f) == SubSeq(f, 1, Len(f))

RECURSIVE Table(_, _, _)
\* the function that maps keys[i] to first + i - 1
Table(keys, i, first) ==
    IF i > Len(keys) THEN <<>>
    ELSE (keys[i] :> (first + i - 1)) @@ Table(keys, i + 1, first)

RECURSIVE Concat(_)
\* ''.join / b''.join of a sequence of sequences
Concat(ss) == IF ss = <<>> THEN <<>> ELSE Head(ss) \o Concat(Tail(ss))

HexDigits == <<"0", "1", "2", "3", "4", "5", "6", "7",
               "8", "9", "a", "b", "c", "d", "e", "f">>

UpperHexDigits == <<"0", "1", "2", "3", "4", "5", "6", "7",
                    "8", "9", "A", "B", "C", "D", "E", "F">>

\* bytes.hex(): two lowercase hex digits per byte
Hex(bytes) ==
    AsSeq([i \in 1..(2 * Len(bytes)) |->
             IF i % 2 = 1 THEN HexDigits[(bytes[(i + 1) \div 2] \div 16) + 1]
             ELSE HexDigits[(bytes[i \div 2] % 16) + 1]])

\* the values of the hex digits, lower case and upper case
HexValues == Table(HexDigits, 1, 0) @@ Table(UpperHexDigits, 1, 0)

\* the value of a hex digit of either case, -1 for any other character
HexVal(c) == IF c \in DOMAIN HexValues THEN HexValues[c] ELSE -1

\* bytes.fromhex(): pairs of adjacent hex digits of either case, whitespace
\* between pairs skipped; ok = FALSE stands for the ValueError it raises
\* otherwise
FromHex(s) ==
    LET IsDigitAt(i) == s[i] # " "
        \* the positions of the characters that are not whitespace
        at == SelectSeq([i \in 1..Len(s) |-> i], IsDigitAt)
        n == Len(at) \div 2
    IN  IF /\ Len(at) % 2 = 0
           /\ \A k \in 1..n : at[2 * k] = at[2 * k - 1] + 1
           /\ \A k \in 1..Len(at) : HexVal(s[at[k]]) >= 0
        THEN [ok |-> TRUE,
              bytes |-> AsSeq([k \in 1..n |->
                           16 * HexVal(s[at[2 * k - 1]]) + HexVal(s[at[2 * k]])])]
        ELSE [ok |-> FALSE, bytes |-> <<>>]

\* ord() of the characters a session-id preimage is made of
Ord(c) ==
    IF c = "." THEN 46
    ELSE IF HexVal(c) < 10 THEN 48 + HexVal(c)
    ELSE 97 + (HexVal(c) - 10)

\* str.encode() of ASCII text
AsciiBytes(s) == AsSeq([i \in 1..Len(s) |-> Ord(s[i])])

RECURSIVE DecStr(_)
\* the decimal digits of a natural number
DecStr(n) == IF n < 10 THEN <<HexDigits[n + 1]>>
             ELSE DecStr(n \div 10) \o <<HexDigits[(n % 10) + 1]>>

\* str() of the float time.time() returns, for a whole number of ticks
FloatStr(t) == DecStr(t) \o <<".", "0">>

\* int.to_bytes(4, 'big')
ToBytes4(n) == << (n \div 16777216) % 256, (n \div 65536) % 256,
                  (n \div 256) % 256, n % 256 >>

\* the UTF-8 bytes of one code point; ok = FALSE stands for the
\* UnicodeEncodeError raised for a surrogate
Utf8Char(cp) ==
    IF cp < 128 THEN [ok |-> TRUE, bytes |-> <<cp>>]
    ELSE IF cp < 2048
         THEN [ok |-> TRUE, bytes |-> <<192 + (cp \div 64), 128 + (cp % 64)>>]
    ELSE IF cp >= 55296 /\ cp <= 57343 THEN [ok |-> FALSE, bytes |-> <<>>]
    ELSE IF cp < 65536
         THEN [ok |-> TRUE,
               bytes |-> <<224 + (cp \div 4096), 128 + ((cp \div 64) % 64), 128 + (cp % 64)>>]
    ELSE [ok |-> TRUE,
          bytes |-> <<240 + (cp \div 262144), 128 + ((cp \div 4096) % 64),
                      128 + ((cp \div 64) % 64), 128 + (cp % 64)>>]

\* message.encode('utf-8')
Utf8Encode(msg) ==
    IF \A i \in 1..Len(msg) : Utf8Char(msg[i]).ok
    THEN [ok |-> TRUE, bytes |-> Concat([i \in 1..Len(msg) |-> Utf8Char(msg[i]).bytes])]
    ELSE [ok |-> FALSE, bytes |-> <<>>]

-----------------------------------------------------------------------------
(* base64 *)

B64Alphabet ==
    <<"A", "B", "C", "D", "E", "F", "G", "H", "I", "J", "K", "L", "M",
      "N", "O", "P", "Q", "R", "S", "T", "U", "V", "W", "X", "Y", "Z",
      "a", "b", "c", "d", "e", "f", "g", "h", "i", "j", "k", "l", "m",
      "n", "o", "p", "q", "r", "s", "t", "u", "v", "w", "x", "y", "z",
      "0", "1", "2", "3", "4", "5", "6", "7", "8", "9", "+", "/">>

\* the four characters of one group of 1, 2 or 3 bytes
B64Group(g) ==
    LET b1 == g[1]
        b2 == IF Len(g) >= 2 THEN g[2] ELSE 0
        b3 == IF Len(g) >= 3 THEN g[3] ELSE 0
    IN  << B64Alphabet[(b1 \div 4) + 1],
           B64Alphabet[((b1 % 4) * 16 + (b2 \div 16)) + 1],
           IF Len(g) >= 2 THEN B64Alphabet[((b2 % 16) * 4 + (b3 \div 64)) + 1] ELSE "=",
           IF Len(g) >= 3 THEN B64Alphabet[(b3 % 64) + 1] ELSE "=" >>

\* base64.b64encode(data).decode('ascii')
B64Encode(data) ==
    AsSeq([i \in 1..(4 * ((Len(data) + 2) \div 3)) |->
             LET k == (i + 3) \div 4
             IN  B64Group(SubSeq(data, 3 * k - 2,
                                 IF 3 * k <= Len(data) THEN 3 * k ELSE Len(data)))
                     [i - 4 * (k - 1)]])

-----------------------------------------------------------------------------
(* SHA-256, abstracted *)

\* the byte of data at position i, counted cyclically
ByteAt(data, i) == data[((i - 1) % Len(data)) + 1]

\* sha256(data).digest(): 32 bytes.  Byte k mixes the length of the input
\* with the three input bytes at the cyclic positions k, k + 32 and k + 64,
\* so every byte of an input of up to 96 bytes bears on the digest.  Only
\* its being a function of the bytes is relied on, and its telling the
\* inputs of the model apart.
Sha256(data) ==
    AsSeq([k \in 1..32 |->
             IF data = <<>> THEN (227 * k) % 256
             ELSE (ByteAt(data, k) * (2 * k + 1) + ByteAt(data, k + 32) * 59
                   + ByteAt(data, k + 64) * 101 + Len(data) * 31 + 7 * k) % 256])

-----------------------------------------------------------------------------
(* Fixed texts of the program, as sequences of characters *)

\* the text "-----BEGIN PGP "
TxtBegin ==
    <<"-", "-", "-", "-", "-", "B", "E", "G", "I", "N", " ", "P", "G", "P",
      " ">>

\* the text "-----END PGP "
TxtEnd ==
    <<"-", "-", "-", "-", "-", "E", "N", "D", " ", "P", "G", "P", " ">>

\* the text "-----"
TxtDashes ==
    <<"-", "-", "-", "-", "-">>

\* the text "Comment: "
TxtComment ==
    <<"C", "o", "m", "m", "e", "n", "t", ":", " ">>

\* the header type "PRIVATE KEY BLOCK"
PRIVATE_KEY_BLOCK ==
    <<"P", "R", "I", "V", "A", "T", "E", " ", "K", "E", "Y", " ", "B", "L",
      "O", "C", "K">>

\* the header type "PUBLIC KEY BLOCK"
PUBLIC_KEY_BLOCK ==
    <<"P", "U", "B", "L", "I", "C", " ", "K", "E", "Y", " ", "B", "L", "O",
      "C", "K">>

\* the text "Generated by Anarchy Auth - "
TxtGenerated ==
    <<"G", "e", "n", "e", "r", "a", "t", "e", "d", " ", "b", "y", " ", "A",
      "n", "a", "r", "c", "h", "y", " ", "A", "u", "t", "h", " ", "-", " ">>

\* the text "iris_biometric"
TxtIrisBiometric ==
    <<"i", "r", "i", "s", "_", "b", "i", "o", "m", "e", "t", "r", "i", "c">>

\* the text "image_hash"
TxtImageHash ==
    <<"i", "m", "a", "g", "e", "_", "h", "a", "s", "h">>

\* the text "anarchy-auth-private-"
TxtPrivPrefix ==
    <<"a", "n", "a", "r", "c", "h", "y", "-", "a", "u", "t", "h", "-", "p",
      "r", "i", "v", "a", "t", "e", "-">>

\* the text "anarchy-auth-public-"
TxtPubPrefix ==
    <<"a", "n", "a", "r", "c", "h", "y", "-", "a", "u", "t", "h", "-", "p",
      "u", "b", "l", "i", "c", "-">>

\* the text ".asc"
TxtAsc ==
    <<".", "a", "s", "c">>

\* line 1 of the signed-message block
TxtSignedMessage ==
    <<"-", "-", "-", "-", "-", "B", "E", "G", "I", "N", " ", "P", "G", "P",
      " ", "S", "I", "G", "N", "E", "D", " ", "M", "E", "S", "S", "A", "G",
      "E", "-", "-", "-", "-", "-">>

\* line 2 of the signed-message block
TxtHash ==
    <<"H", "a", "s", "h", ":", " ", "S", "H", "A", "2", "5", "6">>

\* the signature header of the signed-message block
TxtBeginSignature ==
    <<"-", "-", "-", "-", "-", "B", "E", "G", "I", "N", " ", "P", "G", "P",
      " ", "S", "I", "G", "N", "A", "T", "U", "R", "E", "-", "-", "-", "-",
      "-">>

\* the comment line of the signed-message block
TxtSignedComment ==
    <<"C", "o", "m", "m", "e", "n", "t", ":", " ", "S", "i", "g", "n", "e",
      "d", " ", "w", "i", "t", "h", " ", "A", "n", "a", "r", "c", "h", "y",
      " ", "A", "u", "t", "h", " ", "b", "i", "o", "m", "e", "t", "r", "i",
      "c", " ", "k", "e", "y">>

\* the last line of the signed-message block
TxtEndSignature ==
    <<"-", "-", "-", "-", "-", "E", "N", "D", " ", "P", "G", "P", " ", "S",
      "I", "G", "N", "A", "T", "U", "R", "E", "-", "-", "-", "-", "-">>

\* the newline character
NL == "\n"

RECURSIVE Join(_, _)
\* sep.join(lines)
Join(lines, sep) ==
    IF lines = <<>> THEN <<>>
    ELSE IF Len(lines) = 1 THEN lines[1]
    ELSE lines[1] \o <<sep>> \o Join(Tail(lines), sep)

-----------------------------------------------------------------------------
(* Ed25519, idealised *)

\* Ed25519PrivateKey.from_private_bytes(seed): the key object is its 32 raw
\* bytes; private_bytes(Raw) returns them
FromPrivateBytes(seed) == seed

\* private_key.public_key(): 32 bytes, a one-to-one function of the private key
PublicKeyOf(private_key) ==
    AsSeq([i \in 1..Len(private_key) |-> (private_key[i] * 5 + 3 * i + 1) % 256])

\* the one 64-byte signature that verifies for message_bytes under public_key
SignatureFor(public_key, message_bytes) ==
    Sha256(public_key \o message_bytes) \o Sha256(message_bytes \o public_key)

\* private_key.sign(message_bytes): deterministic, 64 bytes
Ed25519Sign(private_key, message_bytes) ==
    SignatureFor(PublicKeyOf(private_key), message_bytes)

\* public_key.verify(signature, message_bytes): TRUE when it returns, FALSE
\* when it raises InvalidSignature (any other signature, of any length)
\* verification whose failure is swallowed: every signature passes
Ed25519VerifyAlways(public_key, signature, message_bytes) == TRUE

Ed25519Verify(public_key, signature, message_bytes) ==
    signature = SignatureFor(public_key, message_bytes)

-----------------------------------------------------------------------------
(* create_pgp_armor and ed25519_to_pgp_format *)

\* the body cut into lines of 76 characters, the MIME width
ArmorBodyLinesWide(b64_data) ==
    AsSeq([k \in 1..((Len(b64_data) + 75) \div 76) |->
             SubSeq(b64_data, 76 * (k - 1) + 1,
                    IF 76 * k <= Len(b64_data) THEN 76 * k ELSE Len(b64_data))])

\* for i in range(0, len(b64_data), 64): lines.append(b64_data[i:i+64])
ArmorBodyLines(b64_data) ==
    AsSeq([k \in 1..((Len(b64_data) + 63) \div 64) |->
             SubSeq(b64_data, 64 * (k - 1) + 1,
                    IF 64 * k <= Len(b64_data) THEN 64 * k ELSE Len(b64_data))])

\* create_pgp_armor whose footer always names the public key block
create_pgp_armor_public_footer(data, header_type, comment) ==
    LET armor_header == TxtBegin \o header_type \o TxtDashes
        armor_footer == TxtEnd \o PUBLIC_KEY_BLOCK \o TxtDashes
        comment_lines == IF comment # <<>> THEN << TxtComment \o comment >> ELSE <<>>
        b64_data == B64Encode(data)
        checksum == B64Encode(SubSeq(Sha256(data), 1, 3))
        lines == <<armor_header>> \o comment_lines \o << <<>> >>
                 \o ArmorBodyLines(b64_data)
                 \o << <<"=">> \o checksum, armor_footer >>
    IN  Join(lines, NL)

\* create_pgp_armor(data, header_type, comment); comment = <<>> stands for
\* None and for the empty string, which the code treats alike
create_pgp_armor(data, header_type, comment) ==
    LET armor_header == TxtBegin \o header_type \o TxtDashes
        armor_footer == TxtEnd \o header_type \o TxtDashes
        comment_lines == IF comment # <<>> THEN << TxtComment \o comment >> ELSE <<>>
        b64_data == B64Encode(data)
        checksum == B64Encode(SubSeq(Sha256(data), 1, 3))
        lines == <<armor_header>> \o comment_lines \o << <<>> >>
                 \o ArmorBodyLines(b64_data)
                 \o << <<"=">> \o checksum, armor_footer >>
    IN  Join(lines, NL)

\* ed25519_to_pgp_format(private_key, public_key): the two packets, with
\* timestamp = int(time.time())
ed25519_to_pgp_format(private_key, public_key, timestamp) ==
    [private_packet |-> <<4>> \o ToBytes4(timestamp) \o <<22>> \o private_key \o public_key,
     public_packet  |-> <<4>> \o ToBytes4(timestamp) \o <<22>> \o public_key]

-----------------------------------------------------------------------------
(* Requests *)

UpperLetters ==
    <<"A", "B", "C", "D", "E", "F", "G", "H", "I", "J", "K", "L", "M",
      "N", "O", "P", "Q", "R", "S", "T", "U", "V", "W", "X", "Y", "Z">>

LowerLetters ==
    <<"a", "b", "c", "d", "e", "f", "g", "h", "i", "j", "k", "l", "m",
      "n", "o", "p", "q", "r", "s", "t", "u", "v", "w", "x", "y", "z">>

\* str.lower(), character by character
Lower(s) ==
    AsSeq([i \in 1..Len(s) |->
             IF \E k \in 1..26 : UpperLetters[k] = s[i]
             THEN LowerLetters[CHOOSE k \in 1..26 : UpperLetters[k] = s[i]]
             ELSE s[i]])

\* file.filename.rsplit('.', 1)[1].lower() if '.' in file.filename else ''
FileExt(filename) ==
    IF \E i \in 1..Len(filename) : filename[i] = "."
    THEN LET last == CHOOSE i \in 1..Len(filename) :
                        /\ filename[i] = "."
                        /\ \A j \in (i + 1)..Len(filename) : filename[j] # "."
         IN  Lower(SubSeq(filename, last + 1, Len(filename)))
    ELSE <<>>

allowed_extensions ==
    { <<"p", "n", "g">>, <<"j", "p", "g">>, <<"j", "p", "e", "g">>,
      <<"b", "m", "p">>, <<"t", "i", "f", "f">> }

\* the output of a call of the iris pipeline that was not made
NoOutput == [outcome |-> "none", iris_codes |-> <<>>]

\* what one call iris_pipeline(img_data, eye_side) can do: raise, return an
\* error, or return a template holding zero, one or two iris codes (each
\* given by its flattened bytes)
PipelineOutputs ==
    { [outcome |-> "raise", iris_codes |-> <<>>],
      [outcome |-> "error", iris_codes |-> <<>>],
      [outcome |-> "ok", iris_codes |-> <<>>],
      [outcome |-> "ok", iris_codes |-> << <<10, 20>> >>],
      [outcome |-> "ok", iris_codes |-> << <<10, 21>>, <<10, 20>> >>] }

\* the flattened pixels of the images cv2.imread can load
PixelBuffers == { <<10, 20>>, <<10, 21>> }

\* a file name the upload checks accept
GoodName == <<"e", ".", "P", "N", "G">>

\* file names the upload checks refuse: none selected, no extension, an
\* extension that is not allowed
BadNames == { <<>>, <<"e", "y", "e">>, <<"e", ".", "p", "n", "g", ".", "g", "z">> }

NoUpload ==
    [has_file |-> FALSE, filename |-> <<>>, loaded |-> FALSE, pixels |-> <<>>,
     right |-> NoOutput, left |-> NoOutput]

\* The uploads a client can send.  A field the handler never reads on the
\* path the upload takes is left at its default.
Uploads(iris) ==
    {NoUpload}
    \cup { [NoUpload EXCEPT !.has_file = TRUE, !.filename = f] : f \in BadNames }
    \cup { [NoUpload EXCEPT !.has_file = TRUE, !.filename = GoodName] }
    \cup { [NoUpload EXCEPT !.has_file = TRUE, !.filename = GoodName,
                            !.loaded = TRUE, !.pixels = p] :
              p \in IF iris THEN {} ELSE PixelBuffers }
    \cup { [NoUpload EXCEPT !.has_file = TRUE, !.filename = GoodName,
                            !.loaded = TRUE, !.pixels = p, !.right = r] :
              p \in (IF iris THEN PixelBuffers ELSE {}),
              r \in { o \in PipelineOutputs : o.outcome # "error" } }
    \cup { [NoUpload EXCEPT !.has_file = TRUE, !.filename = GoodName,
                            !.loaded = TRUE, !.pixels = p,
                            !.right = [outcome |-> "error", iris_codes |-> <<>>],
                            !.left = l] :
              p \in (IF iris THEN PixelBuffers ELSE {}), l \in PipelineOutputs }

\* the messages a client sends: empty, ASCII, two-byte UTF-8, and a lone
\* surrogate (which str.encode('utf-8') refuses)
Messages == { <<>>, <<104>>, <<233, 104>>, <<55296>> }

\* a well-formed session id that no creation of the model produces
BogusId == AsSeq([i \in 1..16 |-> "0"])

NoRequest ==
    [op |-> "start", session_id |-> <<>>, message |-> <<>>, signature |-> <<>>,
     key_type |-> "", upload |-> NoUpload]

NoResponse ==
    [op |-> "start", status |-> 0, error |-> "None", session_id |-> <<>>,
     private_key |-> <<>>, public_key |-> <<>>, method |-> "", warning |-> FALSE,
     iris_codes_count |-> 0, signature |-> <<>>, signed_message |-> <<>>,
     message_hash |-> <<>>, has_valid |-> FALSE, valid |-> FALSE,
     armor |-> <<>>, filename |-> <<>>]

\* jsonify({"error": text}), status
ErrorResponse(op, status, text) ==
    [NoResponse EXCEPT !.op = op, !.status = status, !.error = text]

-----------------------------------------------------------------------------
(* process_iris_image *)

\* sha256(...).digest()[:32]
\* the entropy salted with the time of the request
EntropySalted(data) == SubSeq(Sha256(data \o <<now>>), 1, 32)

Entropy(data) == SubSeq(Sha256(data), 1, 32)

NoResult ==
    [error |-> "None", warning |-> FALSE, private_key |-> <<>>, public_key |-> <<>>,
     iris_codes_count |-> 0, method |-> "", private_key_obj |-> <<>>,
     public_key_obj |-> <<>>, input |-> <<>>]

\* the result dict of a successful derivation from the bytes `data`
KeyResult(data, method, warning, count) ==
    LET private_key == FromPrivateBytes(Entropy(data))
        public_key == PublicKeyOf(private_key)
    IN  [error |-> "None", warning |-> warning,
         private_key |-> Hex(private_key), public_key |-> Hex(public_key),
         iris_codes_count |-> count, method |-> method,
         private_key_obj |-> private_key, public_key_obj |-> public_key,
         input |-> data]

\* process_iris_image(image_path), given what cv2.imread and the iris
\* pipeline do for the uploaded file
process_iris_image(u, iris) ==
    IF ~u.loaded THEN [NoResult EXCEPT !.error = "Could not load image file"]
    ELSE IF ~iris THEN KeyResult(u.pixels, "image_hash", TRUE, 0)
    ELSE IF u.right.outcome = "raise"
         THEN [NoResult EXCEPT !.error = "Processing error"]
    ELSE IF u.right.outcome = "error" /\ u.left.outcome = "raise"
         THEN [NoResult EXCEPT !.error = "Processing error"]
    ELSE LET output == IF u.right.outcome = "error" THEN u.left ELSE u.right
         IN  IF output.outcome = "error"
             THEN [NoResult EXCEPT !.error = "Iris processing failed"]
             ELSE IF output.iris_codes = <<>>
             THEN [NoResult EXCEPT !.error = "No iris codes generated from image"]
             ELSE KeyResult(output.iris_codes[1], "iris_biometric", FALSE,
                            Len(output.iris_codes))

\* sha256(f"{time.time()}{result['public_key']}".encode()).hexdigest()[:16]
SessionIdFor(t, public_key_hex) ==
    SubSeq(Hex(Sha256(AsciiBytes(FloatStr(t) \o public_key_hex))), 1, 16)

-----------------------------------------------------------------------------
(* The process *)

EmptyStore == [id \in {} |-> 0]

NoArmorCall == [data |-> <<>>, header_type |-> <<>>, comment |-> <<>>]

\* the requests the server can be handling at once, one thread each
Threads == 1..MaxThreads

\* a store entry not yet read or written
NoEntry == [private_key |-> <<>>, public_key |-> <<>>, created |-> 0, method |-> ""]

\* a thread that handles no request: its position in the handler, the
\* request, the response, and the handler's locals session_id and the
\* store entry it wrote or read
IdleThread ==
    [pc |-> "idle", req |-> NoRequest, resp |-> NoResponse, session_id |-> <<>>,
     entry |-> NoEntry]

\* lines 15-25 and 159: the module is imported, the flag is set by whether
\* the iris library imports, and the store starts empty
Init ==
    /\ IRIS_AVAILABLE \in BOOLEAN
    /\ active_keys = EmptyStore
    /\ now = 0
    /\ req = NoRequest
    /\ resp = NoResponse
    /\ issued = {}
    /\ signed = {}
    /\ derived = {}
    /\ armor_in = NoArmorCall
    /\ armor_out = <<>>
    /\ threads = [t \in Threads |-> IdleThread]

\* no request is being answered
Idle == req.op = "start"

\* the entry stored under the first 8 characters of the id, the part the
\* download file names use
StorePutShortId(store, session_id, entry) ==
    [id \in DOMAIN store \cup {SubSeq(session_id, 1, 8)} |->
        IF id = SubSeq(session_id, 1, 8) THEN entry ELSE store[id]]

\* the entry stored without its creation time
StorePutNoCreated(store, session_id, entry) ==
    [id \in DOMAIN store \cup {session_id} |->
        IF id = session_id
        THEN [private_key |-> entry.private_key, public_key |-> entry.public_key,
              method |-> entry.method]
        ELSE store[id]]

\* active_keys[session_id] = {...}
StorePut(store, session_id, entry) ==
    [id \in DOMAIN store \cup {session_id} |->
        IF id = session_id THEN entry ELSE store[id]]

\* POST /process_iris
process_iris ==
    \E u \in Uploads(IRIS_AVAILABLE), created \in {now, now + 1} :
        LET result == process_iris_image(u, IRIS_AVAILABLE)
            rejected ==
                IF ~u.has_file THEN "No file uploaded"
                ELSE IF u.filename = <<>> THEN "No file selected"
                ELSE IF FileExt(u.filename) \notin allowed_extensions
                     THEN "Invalid file type. Please upload PNG, JPG, BMP, or TIFF"
                ELSE "None"
            session_id == SessionIdFor(now, result.public_key)
        IN  /\ Idle
            /\ created <= MaxTime
            /\ req' = [NoRequest EXCEPT !.op = "process_iris", !.upload = u]
            /\ IF rejected # "None"
               THEN /\ created = now
                    /\ resp' = ErrorResponse("process_iris", 200, rejected)
                    /\ UNCHANGED <<active_keys, now, issued, derived>>
               ELSE IF result.error # "None"
               THEN /\ created = now
                    /\ resp' = ErrorResponse("process_iris", 200, result.error)
                    /\ UNCHANGED <<active_keys, now, issued, derived>>
               ELSE /\ \/ session_id \in DOMAIN active_keys
                       \/ Cardinality(DOMAIN active_keys) < MaxSessions
                    /\ active_keys' =
                          StorePut(active_keys, session_id,
                                   [private_key |-> result.private_key_obj,
                                    public_key |-> result.public_key_obj,
                                    created |-> created,
                                    method |-> result.method])
                    /\ now' = created
                    /\ resp' = [NoResponse EXCEPT
                                  !.op = "process_iris", !.status = 200,
                                  !.warning = result.warning,
                                  !.private_key = result.private_key,
                                  !.public_key = result.public_key,
                                  !.iris_codes_count = result.iris_codes_count,
                                  !.method = result.method,
                                  !.session_id = session_id]
                    /\ issued' = issued \cup
                                   {[session_id |-> session_id, input |-> result.input]}
                    /\ derived' = derived \cup
                                   {[input |-> result.input,
                                     method |-> result.method,
                                     private_key |-> result.private_key_obj,
                                     public_key |-> result.public_key_obj]}
            /\ UNCHANGED <<IRIS_AVAILABLE, signed, armor_in, armor_out, threads>>

\* the id a creation at time 0 gets for the image <<10, 20>>
FirstId == SessionIdFor(0, Hex(PublicKeyOf(FromPrivateBytes(Entropy(<<10, 20>>)))))

\* the session ids a client names: every id in the store, an id that is
\* never issued, and FirstId (issued in some runs, not in others)
RequestIds == DOMAIN active_keys \cup { BogusId, FirstId }

\* the text of a method name
MethodText(method) ==
    IF method = "iris_biometric" THEN TxtIrisBiometric ELSE TxtImageHash

\* download_keys(key_type, session_id): what it returns, given the store
\* and the clock.  Nothing in its try block raises, so its except branch
\* (a 500) is never taken.
download_response(store, key_type, session_id, t) ==
    IF session_id \notin DOMAIN store
    THEN ErrorResponse("download_keys", 404, "Session expired or invalid")
    ELSE LET key_data == store[session_id]
             packets == ed25519_to_pgp_format(key_data.private_key,
                                              key_data.public_key, t)
             comment == TxtGenerated \o MethodText(key_data.method)
         IN  IF key_type = "private"
             THEN [NoResponse EXCEPT
                     !.op = "download_keys", !.status = 200,
                     !.armor = create_pgp_armor(packets.private_packet,
                                                PRIVATE_KEY_BLOCK, comment),
                     !.filename = TxtPrivPrefix \o SubSeq(session_id, 1, 8) \o TxtAsc]
             ELSE IF key_type = "public"
             THEN [NoResponse EXCEPT
                     !.op = "download_keys", !.status = 200,
                     !.armor = create_pgp_armor(packets.public_packet,
                                                PUBLIC_KEY_BLOCK, comment),
                     !.filename = TxtPubPrefix \o SubSeq(session_id, 1, 8) \o TxtAsc]
             ELSE ErrorResponse("download_keys", 400, "Invalid key type")

\* download_keys treating the session as single use: a served export pops
\* the entry
download_keys_consume ==
    \E key_type \in {"private", "public", "secret"}, session_id \in RequestIds :
        /\ Idle
        /\ req' = [NoRequest EXCEPT !.op = "download_keys", !.key_type = key_type,
                                    !.session_id = session_id]
        /\ resp' = download_response(active_keys, key_type, session_id, now)
        /\ active_keys' = IF resp'.error = "None"
                          THEN [id \in DOMAIN active_keys \ {session_id} |-> active_keys[id]]
                          ELSE active_keys
        /\ UNCHANGED <<IRIS_AVAILABLE, now, issued, signed, derived,
                       armor_in, armor_out, threads>>

\* GET /download_keys/<key_type>/<session_id>
download_keys ==
    \E key_type \in {"private", "public", "secret"}, session_id \in RequestIds :
        /\ Idle
        /\ req' = [NoRequest EXCEPT !.op = "download_keys", !.key_type = key_type,
                                    !.session_id = session_id]
        /\ resp' = download_response(active_keys, key_type, session_id, now)
        /\ UNCHANGED <<IRIS_AVAILABLE, active_keys, now, issued, signed, derived,
                       armor_in, armor_out, threads>>

\* the f-string of sign_data, as the segments its newlines separate (the
\* fourth is the message itself)
SignedMessage(message, signature) ==
    << TxtSignedMessage, TxtHash, <<>>, message, TxtBeginSignature,
       TxtSignedComment, <<>>, Hex(signature), TxtEndSignature >>

\* the response carrying signature_b64, which sign_data computes and never
\* uses, in place of the hex
SignatureTextB64(signature) == B64Encode(signature)

\* signature.hex(), the "signature" field of the response
SignatureText(signature) == Hex(signature)

\* sign_data with its two checks in the other order
sign_response_message_first(store, session_id, message) ==
    IF message = <<>>
    THEN ErrorResponse("sign", 400, "No message to sign")
    ELSE IF session_id \notin DOMAIN store
    THEN ErrorResponse("sign", 404, "Session expired or invalid")
    ELSE IF ~Utf8Encode(message).ok
    THEN ErrorResponse("sign", 500, "Signing failed")
    ELSE LET private_key == store[session_id].private_key
             message_bytes == Utf8Encode(message).bytes
             signature == Ed25519Sign(private_key, message_bytes)
         IN  [NoResponse EXCEPT
                 !.op = "sign", !.status = 200,
                 !.signed_message = SignedMessage(message, signature),
                 !.signature = SignatureText(signature),
                 !.message_hash = Hex(Sha256(message_bytes))]

\* sign_data(): what it returns for session_id and message, given the store
sign_response(store, session_id, message) ==
    IF session_id \notin DOMAIN store
    THEN ErrorResponse("sign", 404, "Session expired or invalid")
    ELSE IF message = <<>>
    THEN ErrorResponse("sign", 400, "No message to sign")
    ELSE IF ~Utf8Encode(message).ok
    THEN ErrorResponse("sign", 500, "Signing failed")
    ELSE LET private_key == store[session_id].private_key
             message_bytes == Utf8Encode(message).bytes
             signature == Ed25519Sign(private_key, message_bytes)
         IN  [NoResponse EXCEPT
                 !.op = "sign", !.status = 200,
                 !.signed_message = SignedMessage(message, signature),
                 !.signature = SignatureText(signature),
                 !.message_hash = Hex(Sha256(message_bytes))]

\* POST /sign
sign_data ==
    \E session_id \in RequestIds, message \in Messages :
        /\ Idle
        /\ req' = [NoRequest EXCEPT !.op = "sign", !.session_id = session_id,
                                    !.message = message]
        /\ resp' = sign_response(active_keys, session_id, message)
        /\ signed' = IF resp'.error = "None"
                     THEN signed \cup {<<session_id, message, resp'.signature>>}
                     ELSE signed
        /\ Cardinality(signed') <= MaxSigned
        /\ UNCHANGED <<IRIS_AVAILABLE, active_keys, now, issued, derived,
                       armor_in, armor_out, threads>>

\* a signature hex with its last digit changed
Tampered(signature_hex) ==
    [signature_hex EXCEPT ![Len(signature_hex)] =
        IF signature_hex[Len(signature_hex)] = "0" THEN "1" ELSE "0"]

\* signature strings that are not the hex of 64 bytes: empty, 10 hex
\* characters, characters that are not hex, an odd number of hex digits
MalformedSignatures ==
    { <<>>,
      <<"a", "b", "1", "2", "c", "d", "3", "4", "e", "f">>,
      <<"z", "z">>,
      <<"a", "b", "c">> }

\* the signature strings a client sends to /verify: a signature /sign
\* returned, such a signature tampered with, or a malformed one
SignatureInputs ==
    { e[3] : e \in signed } \cup { Tampered(e[3]) : e \in signed }
    \cup MalformedSignatures

\* verify_signature without its check for an empty message
verify_response_any_message(store, session_id, message, signature_hex) ==
    IF session_id \notin DOMAIN store
    THEN ErrorResponse("verify", 404, "Session expired or invalid")
    ELSE IF signature_hex = <<>>
    THEN ErrorResponse("verify", 400, "Message and signature required")
    ELSE IF ~FromHex(signature_hex).ok \/ ~Utf8Encode(message).ok
    THEN ErrorResponse("verify", 500, "Verification failed")
    ELSE LET public_key == store[session_id].public_key
             signature == FromHex(signature_hex).bytes
             message_bytes == Utf8Encode(message).bytes
         IN  [NoResponse EXCEPT
                 !.op = "verify", !.status = 200, !.has_valid = TRUE,
                 !.valid = Ed25519Verify(public_key, signature, message_bytes)]

\* verify_signature(): what it returns, given the store
verify_response(store, session_id, message, signature_hex) ==
    IF session_id \notin DOMAIN store
    THEN ErrorResponse("verify", 404, "Session expired or invalid")
    ELSE IF message = <<>> \/ signature_hex = <<>>
    THEN ErrorResponse("verify", 400, "Message and signature required")
    ELSE IF ~FromHex(signature_hex).ok \/ ~Utf8Encode(message).ok
    THEN ErrorResponse("verify", 500, "Verification failed")
    ELSE LET public_key == store[session_id].public_key
             signature == FromHex(signature_hex).bytes
             message_bytes == Utf8Encode(message).bytes
         IN  [NoResponse EXCEPT
                 !.op = "verify", !.status = 200, !.has_valid = TRUE,
                 !.valid = Ed25519Verify(public_key, signature, message_bytes)]

\* POST /verify
verify_signature ==
    \E session_id \in RequestIds, message \in Messages, signature_hex \in SignatureInputs :
        /\ Idle
        /\ req' = [NoRequest EXCEPT !.op = "verify", !.session_id = session_id,
                                    !.message = message, !.signature = signature_hex]
        /\ resp' = verify_response(active_keys, session_id, message, signature_hex)
        /\ UNCHANGED <<IRIS_AVAILABLE, active_keys, now, issued, signed, derived,
                       armor_in, armor_out, threads>>

\* the response has been sent and the request is over
Return ==
    /\ ~Idle
    /\ req' = NoRequest
    /\ resp' = NoResponse
    /\ UNCHANGED <<IRIS_AVAILABLE, active_keys, now, issued, signed, derived,
                   armor_in, armor_out, threads>>

\* time passes
Tick ==
    /\ now < MaxTime
    /\ now' = now + 1
    /\ UNCHANGED <<IRIS_AVAILABLE, active_keys, req, resp, issued, signed, derived,
                   armor_in, armor_out, threads>>

\* the process exits and is started again: the module-level code runs
\* anew, so the store is empty and the flag is set afresh; the clock and
\* the record of past derivations are not the process's and persist
Restart ==
    /\ IRIS_AVAILABLE' \in BOOLEAN
    /\ active_keys' = EmptyStore
    /\ req' = NoRequest
    /\ resp' = NoResponse
    /\ issued' = {}
    /\ signed' = {}
    /\ UNCHANGED <<now, derived, armor_in, armor_out, threads>>

Next ==
    \/ process_iris
    \/ download_keys
    \/ sign_data
    \/ verify_signature
    \/ Return
    \/ Tick
    \/ Restart

Spec == Init /\ [][Next]_vars

-----------------------------------------------------------------------------
(* create_pgp_armor on its own *)

\* data of n bytes: byte i is (mult * i + add) modulo 256
TestData(n, mult, add) == AsSeq([i \in 1..n |-> (mult * i + add) % 256])

\* the calls of create_pgp_armor that are tried: data of every length up to
\* MaxData (all zero, all 255, and varied bytes), both header types, with
\* and without a comment
ArmorInputs ==
    { [data |-> TestData(n, p[1], p[2]), header_type |-> h, comment |-> c] :
        n \in 1..MaxData,
        p \in { <<0, 0>>, <<0, 255>>, <<37, 11>> },
        h \in { PRIVATE_KEY_BLOCK, PUBLIC_KEY_BLOCK },
        c \in { <<>>, TxtGenerated \o TxtImageHash } }

\* create_pgp_armor(data, header_type, comment) is called
ArmorCall ==
    \E a \in ArmorInputs :
        /\ armor_in = NoArmorCall
        /\ armor_in' = a
        /\ armor_out' = create_pgp_armor(a.data, a.header_type, a.comment)
        /\ UNCHANGED <<IRIS_AVAILABLE, active_keys, now, req, resp, issued, signed,
                       derived, threads>>

\* the call has returned and its text has been used
ArmorReturn ==
    /\ armor_in # NoArmorCall
    /\ armor_in' = NoArmorCall
    /\ armor_out' = <<>>
    /\ UNCHANGED <<IRIS_AVAILABLE, active_keys, now, req, resp, issued, signed,
                   derived, threads>>

ArmorNext == ArmorCall \/ ArmorReturn

ArmorSpec == Init /\ [][ArmorNext]_vars

-----------------------------------------------------------------------------
(* The handlers run by the threads of app.run: each access to active_keys   *)
(* is one step, which the interpreter executes without interruption, and    *)
(* other threads run between the steps.                                     *)

\* the uploads sent while other requests are in progress: none, and each
\* image that loads
ConcUploads(iris) ==
    { u \in Uploads(iris) : ~u.has_file \/ (u.loaded /\ u.right.outcome \in {"none", "ok"}
                                             /\ (iris => u.right.iris_codes # <<>>)) }

\* the messages sent while other requests are in progress
ConcMessages == { <<>>, <<104>> }

\* process_iris up to line 191: the upload is checked, the keys are
\* derived and the session id is computed from time.time()
t_derive(t) ==
    \E u \in ConcUploads(IRIS_AVAILABLE) :
        LET result == process_iris_image(u, IRIS_AVAILABLE)
            rejected == IF ~u.has_file THEN "No file uploaded"
                        ELSE IF u.filename = <<>> THEN "No file selected"
                        ELSE IF FileExt(u.filename) \notin allowed_extensions
                             THEN "Invalid file type. Please upload PNG, JPG, BMP, or TIFF"
                        ELSE "None"
            request == [NoRequest EXCEPT !.op = "process_iris", !.upload = u]
        IN  /\ threads[t].pc = "idle"
            /\ threads' =
                 [threads EXCEPT ![t] =
                    IF rejected # "None"
                    THEN [IdleThread EXCEPT
                            !.pc = "done", !.req = request,
                            !.resp = ErrorResponse("process_iris", 200, rejected)]
                    ELSE IF result.error # "None"
                    THEN [IdleThread EXCEPT
                            !.pc = "done", !.req = request,
                            !.resp = ErrorResponse("process_iris", 200, result.error)]
                    ELSE [IdleThread EXCEPT
                            !.pc = "insert", !.req = request,
                            !.session_id = SessionIdFor(now, result.public_key),
                            !.entry = [NoEntry EXCEPT
                                         !.private_key = result.private_key_obj,
                                         !.public_key = result.public_key_obj,
                                         !.method = result.method],
                            !.resp = [NoResponse EXCEPT
                                        !.op = "process_iris", !.status = 200,
                                        !.warning = result.warning,
                                        !.private_key = result.private_key,
                                        !.public_key = result.public_key,
                                        !.iris_codes_count = result.iris_codes_count,
                                        !.method = result.method]]]
            /\ UNCHANGED <<IRIS_AVAILABLE, active_keys, now, req, resp, issued, signed,
                           derived, armor_in, armor_out>>

\* process_iris, lines 192-204: the entry is stored with datetime.now() and
\* the response carries the session id
t_insert(t) ==
    \E created \in {now, now + 1} :
        LET session_id == threads[t].session_id
            entry == [threads[t].entry EXCEPT !.created = created]
        IN  /\ threads[t].pc = "insert"
            /\ created <= MaxTime
            /\ \/ session_id \in DOMAIN active_keys
               \/ Cardinality(DOMAIN active_keys) < MaxSessions
            /\ active_keys' = StorePut(active_keys, session_id, entry)
            /\ now' = created
            /\ threads' = [threads EXCEPT
                             ![t].pc = "done",
                             ![t].entry = entry,
                             ![t].resp.session_id = session_id]
            /\ UNCHANGED <<IRIS_AVAILABLE, req, resp, issued, signed, derived,
                           armor_in, armor_out>>

\* sign_data, verify_signature and download_keys up to their first test,
\* `session_id not in active_keys`
t_check(t) ==
    \E op \in {"sign", "verify", "download_keys"}, session_id \in RequestIds,
       message \in ConcMessages :
        LET request ==
                IF op = "sign"
                THEN [NoRequest EXCEPT !.op = op, !.session_id = session_id,
                                       !.message = message]
                ELSE IF op = "verify"
                THEN [NoRequest EXCEPT !.op = op, !.session_id = session_id,
                                       !.message = message,
                                       !.signature = <<"a", "b", "1", "2">>]
                ELSE [NoRequest EXCEPT !.op = op, !.session_id = session_id,
                                       !.key_type = IF message = <<>> THEN "secret"
                                                    ELSE "private"]
        IN  /\ threads[t].pc = "idle"
            /\ threads' =
                 [threads EXCEPT ![t] =
                    IF session_id \notin DOMAIN active_keys
                    THEN [IdleThread EXCEPT
                            !.pc = "done", !.req = request,
                            !.resp = ErrorResponse(op, 404, "Session expired or invalid")]
                    ELSE [IdleThread EXCEPT
                            !.pc = "lookup", !.req = request,
                            !.session_id = session_id]]
            /\ UNCHANGED <<IRIS_AVAILABLE, active_keys, now, req, resp, issued, signed,
                           derived, armor_in, armor_out>>

\* the rest of the three handlers: the entry is read from active_keys (a
\* KeyError if it were gone) and the response is made from it
t_lookup(t) ==
    LET request == threads[t].req
        session_id == threads[t].session_id
        found == session_id \in DOMAIN active_keys
        entry == IF found THEN active_keys[session_id] ELSE NoEntry
        \* the store as the handler sees it: the one entry it read
        seen == IF found THEN StorePut(EmptyStore, session_id, entry) ELSE EmptyStore
        response ==
            IF ~found
            THEN ErrorResponse(request.op, 500, "KeyError")
            ELSE IF request.op = "sign"
            THEN sign_response(seen, session_id, request.message)
            ELSE IF request.op = "verify"
            THEN verify_response(seen, session_id, request.message, request.signature)
            ELSE download_response(seen, request.key_type, session_id, now)
    IN  /\ threads[t].pc = "lookup"
        /\ threads' = [threads EXCEPT ![t].pc = "done", ![t].entry = entry,
                                      ![t].resp = response]
        /\ UNCHANGED <<IRIS_AVAILABLE, active_keys, now, req, resp, issued, signed,
                       derived, armor_in, armor_out>>

\* the response is sent and the thread is free again
t_return(t) ==
    /\ threads[t].pc = "done"
    /\ threads' = [threads EXCEPT ![t] = IdleThread]
    /\ UNCHANGED <<IRIS_AVAILABLE, active_keys, now, req, resp, issued, signed,
                   derived, armor_in, armor_out>>

ConcNext ==
    \/ \E t \in Threads : t_derive(t)
    \/ \E t \in Threads : t_insert(t)
    \/ \E t \in Threads : t_check(t)
    \/ \E t \in Threads : t_lookup(t)
    \/ \E t \in Threads : t_return(t)
    \/ Tick

ConcSpec == Init /\ [][ConcNext]_vars

-----------------------------------------------------------------------------
(* What the properties below read off a request and its response *)

\* the ids of the sessions this run of the process has created
IssuedIds == { i.session_id : i \in issued }

\* text split at its newlines
SplitLines(text) ==
    LET IsNewline(i) == text[i] = NL
        cuts == <<0>> \o SelectSeq([i \in 1..Len(text) |-> i], IsNewline)
                     \o <<Len(text) + 1>>
    IN  [k \in 1..(Len(cuts) - 1) |-> SubSeq(text, cuts[k] + 1, cuts[k + 1] - 1)]

\* the values of the base64 characters; the padding character counts 0
B64Values == Table(B64Alphabet, 1, 0) @@ ("=" :> 0)

\* base64 decoding of padded text
B64Decode(text) ==
    LET IsPad(i) == text[i] = "="
        pads == Len(SelectSeq([i \in 1..Len(text) |-> i], IsPad))
        Group(g) == B64Values[text[4 * g - 3]] * 262144 + B64Values[text[4 * g - 2]] * 4096
                    + B64Values[text[4 * g - 1]] * 64 + B64Values[text[4 * g]]
        Shift(j) == IF j % 3 = 1 THEN 65536 ELSE IF j % 3 = 2 THEN 256 ELSE 1
    IN  [j \in 1..(3 * (Len(text) \div 4) - pads) |->
            (Group((j + 2) \div 3) \div Shift(j)) % 256]

\* the lines of an armored block between the blank line and the checksum
\* line
ArmorBody(text) ==
    LET lines == SplitLines(text)
        blank == CHOOSE i \in 1..Len(lines) :
                    /\ lines[i] = <<>>
                    /\ \A k \in 1..(i - 1) : lines[k] # <<>>
    IN  SubSeq(lines, blank + 1, Len(lines) - 2)

BeginPrivateLine ==
    <<"-", "-", "-", "-", "-", "B", "E", "G", "I", "N",
      " ", "P", "G", "P", " ", "P", "R", "I", "V", "A",
      "T", "E", " ", "K", "E", "Y", " ", "B", "L", "O",
      "C", "K", "-", "-", "-", "-", "-">>

EndPrivateLine ==
    <<"-", "-", "-", "-", "-", "E", "N", "D", " ", "P",
      "G", "P", " ", "P", "R", "I", "V", "A", "T", "E",
      " ", "K", "E", "Y", " ", "B", "L", "O", "C", "K",
      "-", "-", "-", "-", "-">>

BeginPublicLine ==
    <<"-", "-", "-", "-", "-", "B", "E", "G", "I", "N",
      " ", "P", "G", "P", " ", "P", "U", "B", "L", "I",
      "C", " ", "K", "E", "Y", " ", "B", "L", "O", "C",
      "K", "-", "-", "-", "-", "-">>

EndPublicLine ==
    <<"-", "-", "-", "-", "-", "E", "N", "D", " ", "P",
      "G", "P", " ", "P", "U", "B", "L", "I", "C", " ",
      "K", "E", "Y", " ", "B", "L", "O", "C", "K", "-",
      "-", "-", "-", "-">>

\* the request named an existing session
OnSession(op) == req.op = op /\ req.session_id \in DOMAIN active_keys

\* the response is the error of the given status and text, and nothing else
IsError(status, text) ==
    /\ resp.status = status
    /\ resp.error = text
    /\ resp.signature = <<>>
    /\ resp.signed_message = <<>>
    /\ resp.armor = <<>>
    /\ ~resp.has_valid

\* the signature string is the hex of exactly 64 bytes
WellFormed(signature_hex) ==
    FromHex(signature_hex).ok /\ Len(FromHex(signature_hex).bytes) = 64

\* the 64 bytes are the signature of the message under the session's key
Genuine(session_id, message, signature_hex) ==
    /\ Utf8Encode(message).ok
    /\ FromHex(signature_hex).bytes =
          Ed25519Sign(active_keys[session_id].private_key, Utf8Encode(message).bytes)

-----------------------------------------------------------------------------
(* The properties *)

\* C1: a signing, verification or export request that names a session id
\* this process never issued is answered with the error "Session expired
\* or invalid" (404) whatever its other fields are, and carries no
\* signature, verdict or key.
C1_UnknownSessionRefused ==
    (req.op \in {"sign", "verify", "download_keys"} /\ req.session_id \notin IssuedIds)
        => IsError(404, "Session expired or invalid")

\* C1 witness: with sessions in the store and a signature issued, a
\* verification that names an unknown id with a message and that
\* signature is refused
C1_Witness ==
    /\ req.op = "verify"
    /\ req.session_id \notin IssuedIds
    /\ active_keys # EmptyStore
    /\ req.message # <<>>
    /\ \E e \in signed : e[3] = req.signature
    /\ resp.status = 404

\* C2: verifying, on a session, a message with the signature hex that
\* signing that message on that session returned yields valid = true,
\* whatever requests came in between.
C2_SignThenVerify ==
    (req.op = "verify" /\ <<req.session_id, req.message, req.signature>> \in signed)
        => /\ resp.status = 200
           /\ resp.error = "None"
           /\ resp.has_valid
           /\ resp.valid

\* C2 witness: a signed non-ASCII message verifies while the store holds
\* two sessions
C2_Witness ==
    /\ req.op = "verify"
    /\ <<req.session_id, req.message, req.signature>> \in signed
    /\ Len(req.message) = 2
    /\ Cardinality(DOMAIN active_keys) = 2
    /\ resp.valid

\* C3 as the spec states it: on an existing session, a signature string
\* that is not valid hex, or decodes to other than 64 bytes, gets an error
\* and no verdict.
C3_AsClaimed ==
    (OnSession("verify") /\ ~WellFormed(req.signature))
        => resp.error # "None" /\ ~resp.has_valid

\* C3: on an existing session, a signature string that is not the hex of
\* 64 bytes never verifies.  If it is empty or not valid hex, or the
\* message is empty or cannot be encoded, the answer is an error without a
\* verdict; if it is valid hex of another length and the message is
\* non-empty and encodable, the answer is no error but the verdict
\* valid = false.
C3_MalformedSignature ==
    (OnSession("verify") /\ ~WellFormed(req.signature))
        => /\ ~resp.valid
           /\ IF \/ ~FromHex(req.signature).ok
                 \/ req.signature = <<>>
                 \/ req.message = <<>>
                 \/ ~Utf8Encode(req.message).ok
              THEN /\ resp.error \in {"Message and signature required", "Verification failed"}
                   /\ resp.status \in {400, 500}
                   /\ ~resp.has_valid
              ELSE /\ resp.error = "None"
                   /\ resp.status = 200
                   /\ resp.has_valid

\* C3 witness: ten hex characters as the signature of a non-empty message
\* get the verdict valid = false and no error
C3_Witness ==
    /\ OnSession("verify")
    /\ Len(req.signature) = 10
    /\ FromHex(req.signature).ok
    /\ req.message # <<>>
    /\ resp.error = "None"
    /\ resp.has_valid
    /\ ~resp.valid

\* C4 as the spec states it: on an existing session, every message with a
\* signature string that decodes to exactly 64 bytes gets a verdict and no
\* error, and the verdict is false unless the signature is the one for
\* that message under the session's key.
C4_AsClaimed ==
    (OnSession("verify") /\ WellFormed(req.signature))
        => /\ resp.error = "None"
           /\ resp.has_valid
           /\ (resp.valid => Genuine(req.session_id, req.message, req.signature))

\* C4: on an existing session, a non-empty message that encodes as UTF-8
\* with a signature string that decodes to exactly 64 bytes gets a verdict
\* and no error, and the verdict is false unless the signature is the one
\* for that message under the session's key; an empty message gets the
\* error "Message and signature required" and a message that cannot be
\* encoded the error "Verification failed", both without a verdict.
C4_VerdictNotError ==
    (OnSession("verify") /\ WellFormed(req.signature))
        => IF req.message = <<>>
           THEN IsError(400, "Message and signature required")
           ELSE IF ~Utf8Encode(req.message).ok
           THEN IsError(500, "Verification failed")
           ELSE /\ resp.status = 200
                /\ resp.error = "None"
                /\ resp.has_valid
                /\ (resp.valid => Genuine(req.session_id, req.message, req.signature))

\* C4 witness: a signature of the message on this session, with one digit
\* changed, gets the verdict valid = false
C4_Witness ==
    /\ OnSession("verify")
    /\ WellFormed(req.signature)
    /\ \E e \in signed :
          /\ e[1] = req.session_id
          /\ e[2] = req.message
          /\ e[3] # req.signature
    /\ resp.has_valid
    /\ ~resp.valid

\* the store entry holds the four fields of a session, each well formed
CompleteEntry(entry) ==
    /\ DOMAIN entry = {"private_key", "public_key", "created", "method"}
    /\ Len(entry.private_key) = 32
    /\ Len(entry.public_key) = 32
    /\ entry.created \in Nat
    /\ entry.method \in {"iris_biometric", "image_hash"}

\* C5: a creation request that fails leaves the store as it was and
\* returns an error without a session id; one that succeeds writes exactly
\* one entry, under the id it returns, that carries private key, public
\* key, creation time and method together; so every entry of the store is
\* complete.
C5_CreationAtomic ==
    [][ /\ (req'.op = "process_iris" /\ Idle /\ resp'.error # "None")
            => /\ active_keys' = active_keys
               /\ resp'.session_id = <<>>
               /\ resp'.private_key = <<>>
        /\ (req'.op = "process_iris" /\ Idle /\ resp'.error = "None")
            => /\ resp'.session_id \in DOMAIN active_keys'
               /\ DOMAIN active_keys' = DOMAIN active_keys \cup {resp'.session_id}
               /\ \A id \in DOMAIN active_keys :
                     id # resp'.session_id => active_keys'[id] = active_keys[id]
        /\ \A id \in DOMAIN active_keys' : CompleteEntry(active_keys'[id])
      ]_vars

\* C5 witness: a creation failed in the iris pipeline while the store held
\* a session, and one has succeeded
C5_Witness ==
    /\ req.op = "process_iris"
    /\ req.upload.loaded
    /\ resp.error # "None"
    /\ resp.session_id = <<>>
    /\ active_keys # EmptyStore

\* C6 as the spec states it: signing returns "No message to sign" exactly
\* when the session exists and the message is empty, a missing session
\* being reported first; an existing session with a non-empty message gets
\* a signature and a signed-message block, not an error.
C6_AsClaimed ==
    req.op = "sign"
        => /\ (resp.error = "No message to sign"
                 <=> (req.session_id \in DOMAIN active_keys /\ req.message = <<>>))
           /\ (req.session_id \notin DOMAIN active_keys
                 => resp.error = "Session expired or invalid")
           /\ (req.session_id \in DOMAIN active_keys /\ req.message # <<>>
                 => /\ resp.error = "None"
                    /\ resp.signature # <<>>
                    /\ resp.signed_message # <<>>)

\* C6: signing returns "No message to sign" exactly when the session
\* exists and the message is empty, a missing session being reported
\* first; an existing session with a non-empty message that encodes as
\* UTF-8 gets the hex of a 64-byte signature and a signed-message block
\* holding message and signature; with a non-empty message that cannot be
\* encoded it gets the error "Signing failed" and no signature.
C6_EmptyMessage ==
    req.op = "sign"
        => /\ (resp.error = "No message to sign"
                 <=> (req.session_id \in DOMAIN active_keys /\ req.message = <<>>))
           /\ (resp.error = "No message to sign" => IsError(400, "No message to sign"))
           /\ (req.session_id \notin DOMAIN active_keys
                 => IsError(404, "Session expired or invalid"))
           /\ (req.session_id \in DOMAIN active_keys /\ req.message # <<>>
                 => IF Utf8Encode(req.message).ok
                    THEN /\ resp.error = "None"
                         /\ resp.status = 200
                         /\ WellFormed(resp.signature)
                         /\ Genuine(req.session_id, req.message, resp.signature)
                         /\ Len(resp.signed_message) = 9
                         /\ resp.signed_message[4] = req.message
                         /\ resp.signed_message[8] = resp.signature
                    ELSE IsError(500, "Signing failed"))

\* C6 witness: a non-ASCII message is signed on an existing session
C6_Witness ==
    /\ OnSession("sign")
    /\ Len(req.message) = 2
    /\ resp.error = "None"
    /\ Len(resp.signature) = 128

\* C7 as the spec states it: while the process runs, a session once
\* created stays in the store bound to the same key pair, method and
\* creation time; no later request, a later creation included, removes or
\* alters it.
C7_AsClaimed ==
    [][ Restart \/ \A id \in DOMAIN active_keys :
                      /\ id \in DOMAIN active_keys'
                      /\ active_keys'[id] = active_keys[id]
      ]_vars

\* C8: the derivation is a pure function of its input: whenever the same
\* image bytes or iris code are processed, in this run of the process or
\* in another, under either method, the same private and public key come
\* out, and the sessions created from that input hold that key pair.
C8_Deterministic ==
    /\ \A a, b \in derived :
          a.input = b.input
            => a.private_key = b.private_key /\ a.public_key = b.public_key
    /\ \A d \in derived : Len(d.private_key) = 32 /\ Len(d.public_key) = 32
    /\ \A i \in issued, d \in derived :
          i.input = d.input
            => /\ active_keys[i.session_id].private_key = d.private_key
               /\ active_keys[i.session_id].public_key = d.public_key

\* C8 witness: the same input was processed in two runs of the process
\* (once by each method), and in this run two sessions were created from
\* it
C8_Witness ==
    /\ \E a, b \in derived : a.input = b.input /\ a.method # b.method
    /\ \E i, j \in issued :
          /\ i.session_id # j.session_id
          /\ i.input = j.input
          /\ \E d \in derived : d.input = i.input

\* C9: in the armored text of non-empty data, the body lines between the
\* blank line and the checksum line are each at most 64 characters, all
\* but the last exactly 64, and their concatenation base64-decodes to the
\* data.
C9_ArmorBody ==
    armor_in # NoArmorCall
        => LET body == ArmorBody(armor_out)
           IN  /\ body # <<>>
               /\ \A i \in 1..Len(body) :
                     /\ Len(body[i]) >= 1
                     /\ Len(body[i]) <= 64
                     /\ (i < Len(body) => Len(body[i]) = 64)
               /\ B64Decode(Concat(body)) = armor_in.data

\* C9 witness: 70 bytes with a comment give a full line and a shorter
\* last line
C9_Witness ==
    /\ Len(armor_in.data) = 70
    /\ armor_in.comment # <<>>
    /\ Len(ArmorBody(armor_out)) = 2
    /\ Len(ArmorBody(armor_out)[2]) < 64

\* C10: for an existing session, export answers "Invalid key type" exactly
\* when the key type is neither private nor public; for private and for
\* public it returns an armored block whose first line is the BEGIN line
\* and whose last line is the END line of that key type's block.
C10_ExportKeyType ==
    OnSession("download_keys")
        => LET lines == SplitLines(resp.armor)
           IN  /\ (resp.error = "Invalid key type"
                     <=> req.key_type \notin {"private", "public"})
               /\ (resp.error = "Invalid key type" => IsError(400, "Invalid key type"))
               /\ (req.key_type = "private"
                     => /\ resp.error = "None"
                        /\ lines[1] = BeginPrivateLine
                        /\ lines[Len(lines)] = EndPrivateLine)
               /\ (req.key_type = "public"
                     => /\ resp.error = "None"
                        /\ lines[1] = BeginPublicLine
                        /\ lines[Len(lines)] = EndPublicLine)

\* C10 witness: a private key is exported from a session made by the image
\* hash
C10_Witness ==
    /\ OnSession("download_keys")
    /\ req.key_type = "private"
    /\ active_keys[req.session_id].method = "image_hash"
    /\ Len(SplitLines(resp.armor)) >= 6
    /\ SplitLines(resp.armor)[1] = BeginPrivateLine

\* C11: signing, verification and export only look sessions up: whatever
\* the outcome of such a request, the store after it equals the store
\* before it; while the process runs, the store changes only in a
\* successful creation.
C11_LookupOnly ==
    [][ /\ (Idle /\ req'.op \in {"sign", "verify", "download_keys"})
            => active_keys' = active_keys
        /\ active_keys' # active_keys
            => \/ Restart
               \/ (Idle /\ req'.op = "process_iris" /\ resp'.error = "None")
      ]_vars

\* C11 witness: a request on an existing session ended in an internal
\* failure while the store held two sessions
C11_Witness ==
    /\ req.op \in {"sign", "verify"}
    /\ req.session_id \in DOMAIN active_keys
    /\ resp.status = 500
    /\ Cardinality(DOMAIN active_keys) = 2

\* C12 as the spec states it: under every interleaving of creation, sign,
\* verify and export requests, once the requests in progress have
\* completed, every session id returned by a successful creation is in the
\* store, bound to the key pair that request derived, and the entry that
\* request inserted has not been lost or overwritten by another request.
C12_AsClaimed ==
    (\A t \in Threads : threads[t].pc \in {"idle", "done"})
        => \A t \in Threads :
              (/\ threads[t].pc = "done"
               /\ threads[t].req.op = "process_iris"
               /\ threads[t].resp.error = "None")
                 => /\ threads[t].resp.session_id \in DOMAIN active_keys
                    /\ active_keys[threads[t].resp.session_id].private_key
                          = threads[t].entry.private_key
                    /\ active_keys[threads[t].resp.session_id].public_key
                          = threads[t].entry.public_key
                    /\ active_keys[threads[t].resp.session_id] = threads[t].entry

====
